---- MODULE Spec2Model ----
(***************************************************************************)
(* Function composition of alnr_functional.hpp: compose_l / compose_r      *)
(* (ALNR_RETURNS revision) and compose (RETURNS_DECAY revision).           *)
(*                                                                         *)
(* A client owns a list of stage objects (orig), builds a composition from *)
(* it (fs, the std::tuple member) and calls it.  One call is unrolled into *)
(* the nested exec<N> frames of detail::tuple_exec_ltr / tuple_exec_rtl:   *)
(* every stage is entered and left in turn, a prvalue stage result is      *)
(* materialised as a temporary of the frame that passes it on, and a       *)
(* reference result is passed on as the reference it is.                   *)
(***************************************************************************)
EXTENDS Integers, Sequences, FiniteSets, TLC

\* ---- bounds -------------------------------------------------------------
MaxStages == 3
MaxArgs == 2
MaxCalls == 2
MaxMuts == 1
NumVals == 3
MaxWrites == 3
MaxIters == 2
NumStreams == 2

Values == 0..(NumVals - 1)
\* no value: outside Values
None == 0 - 1
Versions == {"compose_l", "compose_r", "compose"}

\* std::pair<int, int>: the pair (a, b) is the number NumVals * (a + 1) + b,
\* so that no pair is a value of Values
MakePair(a, b) == NumVals * (a + 1) + b
Pairs == {MakePair(a, b) : a \in Values, b \in Values}
IsPair(v) == v >= NumVals
\* std::get<0>(p), std::get<1>(p)
First(p) == (p \div NumVals) - 1
Second(p) == p % NumVals
\* no pair: the place of a destroyed pair object
NonePair == None - 1

\* ---- stages -------------------------------------------------------------
\* add : value-type functor with a member k, returns x + k by value
\* dbl : returns 2 * x by value
\* cnt : functor with a non-const operator(): returns x + k, then ++k
\* id  : alnr::identity<>, returns its argument as the reference it got
\* thr : throws the exception k
\* sum : takes ar arguments, returns 1*a1 + 2*a2 + ... by value
\* neg : returns -x by value
\* mkp : returns the pair (x, x + 1) by value
\* sel1, sel2 : alnr::select1st<>, alnr::select2nd<>, return std::get<N> of
\*       the pair they got: a reference to that pair's element
UnaryStages ==
    {[kind |-> "add", k |-> k, ar |-> 1] : k \in Values}
    \cup {[kind |-> "dbl", k |-> 0, ar |-> 1],
          [kind |-> "cnt", k |-> 0, ar |-> 1],
          [kind |-> "id", k |-> 0, ar |-> 1]}
    \cup {[kind |-> "thr", k |-> k, ar |-> 1] : k \in 1..2}

FirstStages == {[kind |-> "sum", k |-> 0, ar |-> n] : n \in (0..MaxArgs) \ {1}}

StageSet == UnaryStages \cup FirstStages

Arity(s) == s.ar

Pure(s) == s.kind \in {"add", "dbl", "id", "sum", "neg", "mkp", "sel1", "sel2"}

RECURSIVE Weighted(_, _)
Weighted(a, n) == IF n = 0 THEN 0 ELSE (Weighted(a, n - 1) + n * a[n]) % NumVals

\* the value a stage computes from the argument values it reads
StageFn(s, a) ==
    CASE s.kind = "add" -> (a[1] + s.k) % NumVals
      [] s.kind = "dbl" -> (2 * a[1]) % NumVals
      [] s.kind = "cnt" -> (a[1] + s.k) % NumVals
      [] s.kind = "id"  -> a[1]
      [] s.kind = "sum" -> Weighted(a, Len(a))
      [] s.kind = "neg" -> (NumVals - a[1]) % NumVals
      [] s.kind = "mkp" -> MakePair(a[1], (a[1] + 1) % NumVals)
      [] s.kind = "sel1" -> First(a[1])
      [] s.kind = "sel2" -> Second(a[1])
      [] OTHER -> None

\* (mutant) a catch-all around the stage call
NeverThrows(s) == FALSE

StageThrows(s) == s.kind = "thr"

\* identity<> hands back std::forward<T1>(t1), select1st<> / select2nd<>
\* std::get<N>(std::forward<P>(p)): a reference, not a value
ReturnsReference(s) == s.kind \in {"id", "sel1", "sel2"}

\* ---- argument and result types -------------------------------------------
\* what decltype resolves to along the chain: "int" or "pair"
Accepts(s, ty) ==
    CASE s.kind = "id" -> TRUE
      [] s.kind \in {"sel1", "sel2"} -> ty = "pair"
      [] OTHER -> ty = "int"

OutType(s, ty) ==
    CASE s.kind = "id" -> ty
      [] s.kind = "mkp" -> "pair"
      [] OTHER -> "int"

\* the state a stage object is left in by one call of its operator()
AfterCall(s) == IF s.kind = "cnt" THEN [s EXCEPT !.k = (s.k + 1) % NumVals] ELSE s

\* ---- state --------------------------------------------------------------
VARIABLES
    orig,      \* the caller's stage objects, in declaration order
    ver,       \* which factory built the composition ("none" before)
    fs,        \* the composition's std::tuple<Fs...> member
    ctor,      \* the stages as they were when the composition was built
    fs0,       \* fs as it was when the current call started
    pc,        \* "idle" | "enter" | "in" | "ret"
    pos,       \* position in evaluation order of the stage now running
    args,      \* the caller's argument objects of the current / last call
    cur,       \* what is handed to the next stage: a sequence of handles
    temps,     \* temporaries: temps[p] holds the prvalue result of position p
    inp,       \* the argument values the running stage read
    log,       \* enter / exit events of the current / last call
    execs,     \* execs[i]: how often stage i's operator() has been called
    calls,     \* completed calls of the composition
    outcome,   \* "none" | "returned" | "thrown" | "rejected"
    got,       \* the value the caller read from the result
    exc,       \* the exception the caller caught
    before,    \* what the call before returned, if it had the same arguments
    last,      \* what the stage that ran last handed back: a handle
    inner,     \* <<lo, hi>>: stages lo..hi were passed as one nested composition
    groups,    \* what the same stages yielded under other groupings
    osText,    \* osText[s]: the characters written to stream s so far
    its,       \* the ostreamer objects: the one constructed, then its copies
    sent,      \* the values assigned through any of them, in order
    lastop     \* the last iterator operation: which, on which object, returning which

\* the ostreamer and the streams
osVars == <<osText, its, sent, lastop>>

vars == <<orig, ver, fs, ctor, fs0, pc, pos, args, cur, temps, inp, log,
          execs, calls, outcome, got, exc, before, last, inner, groups, osVars>>

\* ---- handles and lifetimes ---------------------------------------------
\* A handle is a prvalue ("val"), a reference to the caller's j-th argument
\* ("arg") or a reference to the temporary of position p ("tmp").
ValH(v) == [src |-> "val", ix |-> v]
ArgH(j) == [src |-> "arg", ix |-> j]
TmpH(p) == [src |-> "tmp", ix |-> p]
\* a reference to the n-th element of the pair that h refers to
ElemH(h, n) ==
    [h EXCEPT !.src = IF h.src = "arg"
                      THEN (IF n = 1 THEN "arg.first" ELSE "arg.second")
                      ELSE (IF n = 1 THEN "tmp.first" ELSE "tmp.second")]

\* the handle refers to a temporary of the call chain, or into one
Temporary(h) == h.src \in {"tmp", "tmp.first", "tmp.second"}

\* no handle: nothing has been handed back yet
NoH == [src |-> "none", ix |-> 0]

Dead == [val |-> None, alive |-> FALSE]
DeadPair == [val |-> NonePair, alive |-> FALSE]
\* what is left of a temporary once it has been destroyed
Corpse(x) == IF IsPair(x.val) \/ x.val = NonePair THEN DeadPair ELSE Dead
NoTemps == [p \in 1..MaxStages |-> Dead]

\* The values a read through handle h can yield: the object's value while it
\* lives, anything once it has been destroyed (undefined behaviour).
Read(h, a, t) ==
    CASE h.src = "val" -> {h.ix}
      [] h.src = "arg" -> {a[h.ix]}
      [] h.src = "arg.first" -> {First(a[h.ix])}
      [] h.src = "arg.second" -> {Second(a[h.ix])}
      [] h.src = "tmp.first" -> IF t[h.ix].alive THEN {First(t[h.ix].val)} ELSE Values
      [] h.src = "tmp.second" -> IF t[h.ix].alive THEN {Second(t[h.ix].val)} ELSE Values
      [] OTHER -> IF t[h.ix].alive THEN {t[h.ix].val}
                  ELSE IF t[h.ix].val = NonePair THEN Pairs ELSE Values

ReadAll(hs, a, t) ==
    {sq \in [1..Len(hs) -> Values \cup Pairs] :
        \A j \in 1..Len(hs) : sq[j] \in Read(hs[j], a, t)}

\* ---- the unrolling ------------------------------------------------------
\* (mutant) the two unrollings exchanged
ExecIndexSwapped(v, n, p) == IF v = "compose_l" THEN n - p + 1 ELSE p

\* Declaration index (1-based) of the stage that runs at position p of n:
\* tuple_exec_ltr<N> wraps stage N around exec<N-1>, so stage 0 runs first;
\* tuple_exec_rtl<N> feeds stage N's result to exec<N-1>, so stage N runs first.
ExecIndex(v, n, p) == IF v = "compose_l" THEN p ELSE n - p + 1

NextPos(p) == p + 1

\* ---- a composition as a stage -------------------------------------------
\* compose_x(f, compose_x(g, h)): stages lo..hi (declaration indices of the
\* flattened list) are held by a nested composition, whose operator() opens
\* frames of its own.  <<0, 0>>: no stage is a composition.
NoInner == <<0, 0>>

Groupings(n) ==
    {NoInner} \cup {g \in (1..n) \X (1..n) : g[1] < g[2] /\ g[2] - g[1] + 1 < n}

\* positions, in execution order, of the nested composition's first and
\* last running stage (0: there is none)
InnerFirst(v, n, g) ==
    IF g = NoInner THEN 0 ELSE IF v = "compose_l" THEN g[1] ELSE n - g[2] + 1

InnerLast(v, n, g) ==
    IF g = NoInner THEN 0 ELSE IF v = "compose_l" THEN g[2] ELSE n - g[1] + 1

\* The temporaries destroyed when the stage at position p returns.
\* tuple_exec_ltr: exec<N> returns as soon as its stage has, and with it
\* dies the temporary that held exec<N-1>'s result; but the temporary handed
\* to a nested composition belongs to the frame that called the nested
\* operator() and lives until that returns.  tuple_exec_rtl: the frames stay
\* open until the stage that runs last has returned, so the temporaries of a
\* nested composition die when its last stage has returned, the others at
\* the end of the call.
Dies(v, n, g, p) ==
    LET a == InnerFirst(v, n, g)
        b == InnerLast(v, n, g)
    IN IF v = "compose_l"
       THEN (({p - 1} \ (IF p = a THEN {a - 1} ELSE {}))
                \cup (IF p = b THEN {a - 1} ELSE {})) \cap (1..n)
       ELSE IF p = b THEN a..(b - 1) ELSE {}

\* (mutant) the parameter pack expanded before the first argument
ForwardedSwapped(arg, rest) == rest \o <<arg>>

\* (mutant) the parameter pack not expanded at all
ForwardedFirstOnly(arg, rest) == <<arg>>

\* std::forward<Arg>(arg), std::forward<Args>(args)...
Forwarded(arg, rest) == <<arg>> \o rest

\* (mutant) every revision declared with RETURNS_AS_IS
DecaysNever(v) == FALSE

\* RETURNS_DECAY returns std::decay<decltype(e)>::type; ALNR_RETURNS returns
\* decltype(e), a reference when e is one.
Decays(v) == v = "compose"

\* every stage but the one that runs first is called with one argument
Typechecks(v, f, k) ==
    /\ Len(f) >= 1
    /\ \A p \in 1..Len(f) :
          Arity(f[ExecIndex(v, Len(f), p)]) = IF p = 1 THEN k ELSE 1

\* the type of the object handed to the stage at position p when the
\* stage that runs first is called with an argument of type ty; "bad" when
\* an earlier stage cannot be called with what it is handed
RECURSIVE TypeAt(_, _, _, _)
TypeAt(v, f, ty, p) ==
    IF p = 1 THEN ty
    ELSE LET q == TypeAt(v, f, ty, p - 1)
             s == f[ExecIndex(v, Len(f), p - 1)]
         IN IF q = "bad" \/ ~Accepts(s, q) THEN "bad" ELSE OutType(s, q)

\* the call expression compiles: every stage accepts what it is handed
WellTyped(v, f, ty) == TypeAt(v, f, ty, Len(f) + 1) # "bad"

ArgType(a) == IF \E j \in 1..Len(a) : IsPair(a[j]) THEN "pair" ELSE "int"

Enter(i, seen) == [ev |-> "enter", st |-> i, vals |-> seen]
Exit(i, v) == [ev |-> "exit", st |-> i, vals |-> <<v>>]

\* ---- ostreamer ---------------------------------------------------------
Streams == 1..NumStreams
\* values written, as in the usage example
OsValues == {0, 8, 13}
\* the delimiter argument: no delimiter (delim(0)), "" or ", "
NoDelim == [null |-> TRUE, str |-> <<>>]
Delims == {NoDelim} \cup {[null |-> FALSE, str |-> s] : s \in {<<>>, <<44, 32>>}}

\* *os << value for an int: its decimal digits, as character codes
RECURSIVE Format(_)
Format(n) == IF n < 10 THEN <<48 + n>> ELSE Format(n \div 10) \o <<48 + (n % 10)>>

\* (mutant) the delimiter written before the value
WrittenDelimFirst(v, d) == (IF d.null THEN <<>> ELSE d.str) \o Format(v)

\* operator=(const Tp& value): *os << value; if (delim) *os << delim;
Written(v, d) == Format(v) \o (IF d.null THEN <<>> ELSE d.str)

NoOp == [op |-> "none", on |-> 0, ret |-> 0]

OsFresh ==
    /\ osText = [s \in Streams |-> <<>>]
    /\ its = <<>>
    /\ sent = <<>>
    /\ lastop = NoOp

\* ---- initial state ------------------------------------------------------
StageLists ==
    UNION {[1..n -> StageSet] : n \in 1..MaxStages}

Init ==
    /\ orig \in StageLists
    /\ \E v \in Versions, k \in 0..MaxArgs : Typechecks(v, orig, k)
    /\ ver = "none"
    /\ fs = <<>>
    /\ ctor = <<>>
    /\ fs0 = <<>>
    /\ pc = "idle"
    /\ pos = 0
    /\ args = <<>>
    /\ cur = <<>>
    /\ temps = NoTemps
    /\ inp = <<>>
    /\ log = <<>>
    /\ execs = [i \in 1..Len(orig) |-> 0]
    /\ calls = 0
    /\ outcome = "none"
    /\ got = None
    /\ exc = None
    /\ before = None
    /\ last = NoH
    /\ inner = NoInner
    /\ groups = {}
    /\ OsFresh

\* ---- the client ---------------------------------------------------------
\* (mutant) a factory that evaluates every stage once while building
ConstructEager(v) ==
    /\ ver = "none"
    /\ ver' = v
    /\ fs' = orig
    /\ ctor' = orig
    /\ execs' = [i \in DOMAIN execs |-> execs[i] + 1]
    /\ UNCHANGED <<orig, fs0, pc, pos, args, cur, temps, inp, log,
                   calls, outcome, got, exc, before, last, inner, groups, osVars>>

\* compose_l(f, fs...) / compose_r(f, fs...) / compose(f, fs...): the stages
\* are taken by value and moved into the tuple; no stage is called.
Construct(v) ==
    /\ ver = "none"
    /\ ver' = v
    /\ fs' = orig
    /\ ctor' = orig
    /\ UNCHANGED <<orig, fs0, pc, pos, args, cur, temps, inp, log, execs,
                   calls, outcome, got, exc, before, last, inner, groups, osVars>>

\* the stage objects of the same type as s, in any state
SameType(s) ==
    IF s.kind \in {"add", "cnt"}
    THEN {[s EXCEPT !.k = k] : k \in Values}
    ELSE {s}

\* (mutant) a tuple of references to the caller's stage objects
MutateOriginalShared(i, s) ==
    /\ ver # "none"
    /\ pc = "idle"
    /\ i \in 1..Len(orig)
    /\ s \in SameType(orig[i]) \ {orig[i]}
    /\ orig' = [orig EXCEPT ![i] = s]
    /\ fs' = [fs EXCEPT ![i] = s]
    /\ UNCHANGED <<ver, ctor, fs0, pc, pos, args, cur, temps, inp, log,
                   execs, calls, outcome, got, exc, before, last, inner, groups, osVars>>

\* the caller changes the state of one of the stage objects it passed in
MutateOriginal(i, s) ==
    /\ ver # "none"
    /\ pc = "idle"
    /\ i \in 1..Len(orig)
    /\ Cardinality({j \in 1..Len(orig) : orig[j] # ctor[j]} \ {i}) < MaxMuts
    /\ s \in SameType(orig[i]) \ {orig[i]}
    /\ orig' = [orig EXCEPT ![i] = s]
    /\ UNCHANGED <<ver, fs, ctor, fs0, pc, pos, args, cur, temps, inp, log,
                   execs, calls, outcome, got, exc, before, last, inner, groups, osVars>>

\* composed_*::operator()(Arg&& arg, Args&&... args): the caller's argument
\* objects are arg, rest...; references to them are forwarded to the stage
\* that runs first.
Invoke(arg, rest) ==
    LET a == <<arg>> \o rest IN
    /\ ver # "none"
    /\ pc = "idle"
    /\ calls < MaxCalls
    /\ Typechecks(ver, fs, Len(a))
    /\ WellTyped(ver, fs, ArgType(a))
    /\ args' = a
    /\ cur' = Forwarded(ArgH(1), [j \in 1..Len(rest) |-> ArgH(j + 1)])
    /\ pos' = 1
    /\ pc' = "enter"
    /\ log' = <<>>
    /\ fs0' = fs
    /\ inp' = <<>>
    /\ temps' = NoTemps
    /\ outcome' = "none"
    /\ got' = None
    /\ exc' = None
    /\ before' = IF outcome = "returned" /\ args = a THEN got ELSE None
    /\ last' = NoH
    /\ UNCHANGED <<orig, ver, fs, ctor, execs, calls, inner, groups, osVars>>

\* A call with no argument: operator() needs an Arg, so no overload is
\* viable and the call expression is rejected; nothing runs.
InvokeNullary ==
    /\ ver # "none"
    /\ pc = "idle"
    /\ calls < MaxCalls
    /\ outcome # "rejected"
    /\ Typechecks(ver, fs, 0)
    /\ args' = <<>>
    /\ log' = <<>>
    /\ outcome' = "rejected"
    /\ got' = None
    /\ exc' = None
    /\ UNCHANGED <<orig, ver, fs, ctor, fs0, pc, pos, cur, temps, inp, execs,
                   calls, before, last, inner, groups, osVars>>

\* ---- one call, stage by stage --------------------------------------------
Running == ExecIndex(ver, Len(fs), pos)

\* std::get<N>(tup)(...): the stage is called and reads its arguments
StageEnter ==
    /\ pc = "enter"
    /\ \E seen \in ReadAll(cur, args, temps) :
          /\ inp' = seen
          /\ log' = Append(log, Enter(Running, seen))
    /\ execs' = [execs EXCEPT ![Running] = @ + 1]
    /\ pc' = "in"
    /\ UNCHANGED <<orig, ver, fs, ctor, fs0, pos, args, cur, temps, calls,
                   outcome, got, exc, before, last, inner, groups, osVars>>

\* the stage throws: no frame catches, every frame is unwound
StageThrow ==
    /\ pc = "in"
    /\ StageThrows(fs[Running])
    /\ outcome' = "thrown"
    /\ exc' = fs[Running].k
    /\ got' = None
    /\ temps' = NoTemps
    /\ cur' = <<>>
    /\ inp' = <<>>
    /\ pos' = 0
    /\ pc' = "idle"
    /\ calls' = calls + 1
    /\ UNCHANGED <<orig, ver, fs, ctor, fs0, args, log, execs, before, last, inner, groups, osVars>>

\* temporaries destroyed when the frame that called the stage at position p
\* returns: exec<N> of tuple_exec_ltr returns as soon as its stage has, and
\* with it dies the temporary that held exec<N-1>'s result; the frames of
\* tuple_exec_rtl all stay open until the stage that runs last has returned.
FrameReturn(v, p, t) ==
    [q \in DOMAIN t |-> IF q \in Dies(v, Len(fs), inner, p) THEN Corpse(t[q]) ELSE t[q]]

\* the object a forwarding stage's result refers to, given the reference h
\* it was called with
Referent(s, h) ==
    CASE s.kind = "sel1" -> ElemH(h, 1)
      [] s.kind = "sel2" -> ElemH(h, 2)
      [] OTHER -> h

\* every frame of the unrolling is gone, and its temporaries with it
Unwound(t) == [q \in DOMAIN t |-> Corpse(t[q])]

\* the stage returns: a reference result is passed on as it is, a prvalue
\* is materialised as a temporary of the frame that passes it on
StageReturn ==
    /\ pc = "in"
    /\ ~StageThrows(fs[Running])
    /\ LET s == fs[Running]
           res == IF ReturnsReference(s) THEN Referent(s, cur[1])
                  ELSE ValH(StageFn(s, inp))
           t1 == FrameReturn(ver, pos, temps)
       IN
       \E out \in Read(res, args, temps) :
          \* what the enclosing frame receives: a nested compose decays too
          LET passed == IF Decays(ver) /\ pos = InnerLast(ver, Len(fs), inner)
                        THEN ValH(out) ELSE res
          IN
          /\ log' = Append(log, Exit(Running, out))
          /\ last' = res
          /\ fs' = [fs EXCEPT ![Running] = AfterCall(s)]
          /\ IF pos < Len(fs)
             THEN /\ pos' = NextPos(pos)
                  /\ pc' = "enter"
                  /\ IF passed.src = "val"
                     THEN /\ temps' = [t1 EXCEPT ![pos] = [val |-> passed.ix, alive |-> TRUE]]
                          /\ cur' = <<TmpH(pos)>>
                     ELSE /\ temps' = t1
                          /\ cur' = <<passed>>
             ELSE /\ pos' = pos
                  /\ pc' = "ret"
                  /\ temps' = t1
                  /\ cur' = <<IF Decays(ver) THEN ValH(out) ELSE res>>
    /\ inp' = <<>>
    /\ UNCHANGED <<orig, ver, ctor, fs0, args, execs, calls, outcome, got, exc, before,
                   inner, groups, osVars>>

\* operator() returns to the caller, which reads the result: every frame of
\* the unrolling is gone, and its temporaries with it
Return ==
    /\ pc = "ret"
    /\ \E v \in Read(cur[1], args, Unwound(temps)) : got' = v
    /\ outcome' = "returned"
    /\ temps' = NoTemps
    /\ cur' = <<>>
    /\ pos' = 0
    /\ pc' = "idle"
    /\ calls' = calls + 1
    /\ UNCHANGED <<orig, ver, fs, ctor, fs0, args, inp, log, execs, exc, before, last, inner, groups, osVars>>

Next ==
    \/ \E v \in Versions : Construct(v)
    \/ \E i \in 1..MaxStages, s \in StageSet \cup {[kind |-> "cnt", k |-> k, ar |-> 1] : k \in Values} :
          MutateOriginal(i, s)
    \/ \E arg \in Values, rest \in UNION {[1..n -> Values] : n \in 0..(MaxArgs - 1)} :
          Invoke(arg, rest)
    \/ InvokeNullary
    \/ StageEnter
    \/ StageThrow
    \/ StageReturn
    \/ Return

Spec == Init /\ [][Next]_vars

\* ---- the same stages, grouped differently --------------------------------
\* three unary stages f, g, h
GroupStages ==
    {[kind |-> "add", k |-> 1, ar |-> 1],
     [kind |-> "cnt", k |-> 0, ar |-> 1],
     [kind |-> "id", k |-> 0, ar |-> 1],
     [kind |-> "thr", k |-> 1, ar |-> 1]}

InitGroup ==
    /\ orig \in [1..MaxStages -> GroupStages]
    /\ ver = "none"
    /\ fs = <<>>
    /\ ctor = <<>>
    /\ fs0 = <<>>
    /\ pc = "idle"
    /\ pos = 0
    /\ args = <<>>
    /\ cur = <<>>
    /\ temps = NoTemps
    /\ inp = <<>>
    /\ log = <<>>
    /\ execs = [i \in 1..Len(orig) |-> 0]
    /\ calls = 0
    /\ outcome = "none"
    /\ got = None
    /\ exc = None
    /\ before = None
    /\ last = NoH
    /\ inner = NoInner
    /\ groups = {}
    /\ OsFresh

\* compose_x(f, g, h), compose_x(compose_x(f, g), h) or
\* compose_x(f, compose_x(g, h)): a composition is passed as a stage like
\* any other callable, by value; no stage is called.
ConstructGrouped(v, g) ==
    /\ ver = "none"
    /\ g \in Groupings(Len(orig))
    /\ ver' = v
    /\ inner' = g
    /\ fs' = orig
    /\ ctor' = orig
    /\ UNCHANGED <<orig, fs0, pc, pos, args, cur, temps, inp, log, execs,
                   calls, outcome, got, exc, before, last, groups, osVars>>

\* what the caller saw of the call just finished
Seen ==
    [inner |-> inner, args |-> args, outcome |-> outcome, got |-> got,
     exc |-> exc, order |-> [j \in 1..Len(log) |-> <<log[j].ev, log[j].st>>]]

\* the client notes what the first call yielded and builds, with the same
\* factory and from the same stage objects, the grouping g it has not tried
Regroup(g) ==
    /\ ver # "none"
    /\ pc = "idle"
    /\ calls = 1
    /\ g \in Groupings(Len(orig)) \ ({inner} \cup {e.inner : e \in groups})
    /\ groups' = groups \cup {Seen}
    /\ inner' = g
    /\ fs' = orig
    /\ ctor' = orig
    /\ execs' = [i \in 1..Len(orig) |-> 0]
    /\ calls' = 0
    /\ UNCHANGED <<orig, ver, fs0, pc, pos, args, cur, temps, inp, log,
                   outcome, got, exc, before, last, osVars>>

NextGroup ==
    \/ \E v \in Versions, g \in Groupings(MaxStages) : ConstructGrouped(v, g)
    \/ \E g \in Groupings(MaxStages) : Regroup(g)
    \/ \E arg \in Values, rest \in UNION {[1..n -> Values] : n \in 0..(MaxArgs - 1)} :
          Invoke(arg, rest)
    \/ StageEnter
    \/ StageThrow
    \/ StageReturn
    \/ Return

SpecGroup == InitGroup /\ [][NextGroup]_vars

\* ---- pairs and selection stages -------------------------------------------
SelectStages ==
    {[kind |-> k, k |-> 0, ar |-> 1] : k \in {"neg", "mkp", "sel1", "sel2", "id"}}

InitSelect ==
    /\ orig \in UNION {[1..n -> SelectStages] : n \in 1..MaxStages}
    /\ \E v \in Versions, ty \in {"int", "pair"} : WellTyped(v, orig, ty)
    /\ ver = "none"
    /\ fs = <<>>
    /\ ctor = <<>>
    /\ fs0 = <<>>
    /\ pc = "idle"
    /\ pos = 0
    /\ args = <<>>
    /\ cur = <<>>
    /\ temps = NoTemps
    /\ inp = <<>>
    /\ log = <<>>
    /\ execs = [i \in 1..Len(orig) |-> 0]
    /\ calls = 0
    /\ outcome = "none"
    /\ got = None
    /\ exc = None
    /\ before = None
    /\ last = NoH
    /\ inner = NoInner
    /\ groups = {}
    /\ OsFresh

NextSelect ==
    \/ \E v \in Versions : Construct(v)
    \/ \E arg \in Values \cup Pairs : Invoke(arg, <<>>)
    \/ StageEnter
    \/ StageReturn
    \/ Return

SpecSelect == InitSelect /\ [][NextSelect]_vars

\* ---- the ostreamer as a state machine -----------------------------------
compVars == <<orig, ver, fs, ctor, fs0, pc, pos, args, cur, temps, inp, log,
              execs, calls, outcome, got, exc, before, last, inner, groups>>

InitOstreamer ==
    /\ orig = <<>>
    /\ ver = "none"
    /\ fs = <<>>
    /\ ctor = <<>>
    /\ fs0 = <<>>
    /\ pc = "idle"
    /\ pos = 0
    /\ args = <<>>
    /\ cur = <<>>
    /\ temps = NoTemps
    /\ inp = <<>>
    /\ log = <<>>
    /\ execs = <<>>
    /\ calls = 0
    /\ outcome = "none"
    /\ got = None
    /\ exc = None
    /\ before = None
    /\ last = NoH
    /\ inner = NoInner
    /\ groups = {}
    /\ OsFresh

\* ostreamer(ostream_type& s) / ostreamer(ostream_type& s, const char_type*)
OsConstruct(s, d) ==
    /\ its = <<>>
    /\ its' = <<[os |-> s, delim |-> d]>>
    /\ UNCHANGED <<osText, sent, lastop, compVars>>

\* the implicit copy constructor (an ostreamer passed by value, as to
\* std::copy): the copy holds the same stream pointer and delimiter pointer
OsCopy(i) ==
    /\ i \in 1..Len(its)
    /\ Len(its) < MaxIters
    /\ its' = Append(its, its[i])
    /\ UNCHANGED <<osText, sent, lastop, compVars>>

\* *it = value, through the object i
OsAssign(i, v) ==
    /\ i \in 1..Len(its)
    /\ Len(sent) < MaxWrites
    /\ osText' = [osText EXCEPT ![its[i].os] = @ \o Written(v, its[i].delim)]
    /\ sent' = Append(sent, v)
    /\ lastop' = [op |-> "assign", on |-> i, ret |-> i]
    /\ UNCHANGED <<its, compVars>>

\* operator*(), operator++(), operator++(int): return *this
OsDeref(i) ==
    /\ i \in 1..Len(its)
    /\ lastop' = [op |-> "deref", on |-> i, ret |-> i]
    /\ UNCHANGED <<osText, its, sent, compVars>>

OsPreIncrement(i) ==
    /\ i \in 1..Len(its)
    /\ lastop' = [op |-> "preinc", on |-> i, ret |-> i]
    /\ UNCHANGED <<osText, its, sent, compVars>>

OsPostIncrement(i) ==
    /\ i \in 1..Len(its)
    /\ lastop' = [op |-> "postinc", on |-> i, ret |-> i]
    /\ UNCHANGED <<osText, its, sent, compVars>>

NextOstreamer ==
    \/ \E s \in Streams, d \in Delims : OsConstruct(s, d)
    \/ \E i \in 1..MaxIters : OsCopy(i)
    \/ \E i \in 1..MaxIters, v \in OsValues : OsAssign(i, v)
    \/ \E i \in 1..MaxIters : OsDeref(i)
    \/ \E i \in 1..MaxIters : OsPreIncrement(i)
    \/ \E i \in 1..MaxIters : OsPostIncrement(i)

SpecOstreamer == InitOstreamer /\ [][NextOstreamer]_vars

\* ---- what a composition is documented to compute ------------------------
\* f[i](f[i+1](... f[N](a) ...))
RECURSIVE NestR(_, _, _)
NestR(f, a, i) ==
    IF i = Len(f) THEN StageFn(f[i], a) ELSE StageFn(f[i], <<NestR(f, a, i + 1)>>)

\* f[i](f[i-1](... f[1](a) ...))
RECURSIVE NestL(_, _, _)
NestL(f, a, i) ==
    IF i = 1 THEN StageFn(f[1], a) ELSE StageFn(f[i], <<NestL(f, a, i - 1)>>)

\* C1: a call of a right-leaning composition (compose_r, compose) that
\* returns yields s[0](s[1](...s[N-1](x)...)): the last-declared stage is
\* applied first, the first-declared stage's result is the result.
C1_RightLeaning ==
    (ver \in {"compose_r", "compose"} /\ outcome = "returned")
        => got = NestR(fs0, args, 1)

\* C2: a call of a left-leaning composition (compose_l) that returns yields
\* s[N-1](...s[1](s[0](x))...): the first-declared stage is applied first,
\* the last-declared stage's result is the result.
C2_LeftLeaning ==
    (ver = "compose_l" /\ outcome = "returned")
        => got = NestL(fs0, args, Len(fs0))

\* C3: the stage that runs first is called with exactly the caller's
\* arguments, in order; every other stage is called with exactly one
\* argument, the result of the stage that ran just before it.
C3_ArityPassThrough ==
    \A j \in 1..Len(log) :
        log[j].ev = "enter" =>
            IF j = 1
            THEN log[j].vals = args
            ELSE /\ log[j - 1].ev = "exit"
                 /\ log[j].vals = log[j - 1].vals

\* ---- evaluation order, failures, construction ----------------------------
\* the stage documented to run at position p: compose_l runs the stages in
\* declaration order, compose_r and compose in reverse declaration order
Documented(p) == IF ver = "compose_l" THEN p ELSE Len(fs) - p + 1

\* C4: in a call whose stages all return, every stage runs exactly once,
\* one after another in evaluation order, and a stage starts only after
\* the one before it has returned.
C4_OnceEachInOrder ==
    /\ \A j \in 1..Len(log) :
          /\ log[j].ev = (IF j % 2 = 1 THEN "enter" ELSE "exit")
          /\ log[j].st = Documented((j + 1) \div 2)
    /\ outcome = "returned" => Len(log) = 2 * Len(fs)

C4_Witness ==
    /\ outcome = "returned"
    /\ Len(fs) = 3
    /\ ver = "compose_r"

\* C5: when a stage throws, the caller gets that very exception and no
\* value, no stage later in evaluation order has run, and every stage
\* before it has run exactly once.
C5_FailurePropagates ==
    /\ \A j \in 1..Len(log) :
          (log[j].ev = "enter" /\ fs[log[j].st].kind = "thr") =>
              /\ j = Len(log)
              /\ pc = "idle" =>
                    /\ outcome = "thrown"
                    /\ exc = fs[log[j].st].k
                    /\ got = None
    /\ outcome = "thrown" =>
          /\ Len(log) >= 1
          /\ Len(log) % 2 = 1
          /\ fs[log[Len(log)].st].kind = "thr"
          /\ \A j \in 1..Len(log) :
                /\ log[j].ev = (IF j % 2 = 1 THEN "enter" ELSE "exit")
                /\ log[j].st = Documented((j + 1) \div 2)

C5_Witness ==
    /\ outcome = "thrown"
    /\ Len(fs) = 3
    /\ Len(log) = 3
    /\ exc = 2
    /\ \E i \in 1..Len(fs) : fs[i].kind = "thr" /\ fs[i].k = 1

\* C6: building a composition calls no stage; afterwards stage i has been
\* called once per completed call of the composition that reached it (a
\* call reaches a stage unless an earlier stage throws).
C6_ConstructionCallsNothing ==
    /\ (ver = "none" \/ (calls = 0 /\ pc = "idle")) =>
          \A i \in DOMAIN execs : execs[i] = 0
    /\ (ver # "none" /\ pc = "idle") =>
          \A p \in 1..Len(fs) :
              execs[Documented(p)] =
                  IF \E q \in 1..(p - 1) : fs[Documented(q)].kind = "thr"
                  THEN 0 ELSE calls

C6_Witness ==
    /\ ver # "none"
    /\ calls = 0
    /\ pc = "idle"
    /\ Len(fs) = 3
    /\ orig # ctor

\* ---- ownership and re-use ------------------------------------------------
\* C7: the composition owns copies of its stages: changing the caller's
\* stage objects after construction changes nothing a later call consults
\* or yields (every stage without a state of its own is, at every call, as
\* it was passed in), and no step of a call changes the caller's objects.
C7_OwnsItsStages ==
    /\ [](ver # "none" =>
            /\ Len(fs) = Len(ctor)
            /\ \A i \in 1..Len(fs) :
                  IF Pure(ctor[i]) THEN fs[i] = ctor[i] ELSE fs[i].kind = ctor[i].kind
            /\ (ver = "compose" /\ outcome = "returned"
                    /\ \A i \in 1..Len(ctor) : Pure(ctor[i]))
                  => got = NestR(ctor, args, 1))
    /\ [][/\ (ver # "none" /\ orig' # orig) =>
                UNCHANGED <<ver, fs, fs0, args, log, execs, calls, outcome, got, exc>>
          /\ (pc # "idle" \/ pc' # "idle") => orig' = orig]_vars

C7_Witness ==
    /\ orig # ctor
    /\ ver = "compose"
    /\ calls = 1
    /\ outcome = "returned"
    /\ \E i \in 1..Len(fs) : fs[i].kind = "cnt" /\ fs[i] # ctor[i] /\ orig[i] = ctor[i]
    /\ \E i \in 1..Len(fs) : fs[i].kind = "add" /\ orig[i] # ctor[i]

\* C8: a call does not change the composition (same length, same stages,
\* same order as when it was built; a stage without a state of its own is
\* unchanged), and with pure stages two calls on equal arguments return
\* equal results.
C8_CallsLeaveCompositionAlone ==
    /\ ver # "none" =>
          /\ Len(fs) = Len(ctor)
          /\ \A i \in 1..Len(fs) :
                IF Pure(ctor[i]) THEN fs[i] = ctor[i] ELSE fs[i].kind = ctor[i].kind
    /\ (/\ outcome = "returned"
        /\ before # None
        /\ \A i \in 1..Len(fs) : Pure(fs[i]))
          => got = before

C11_ResultAsIs ==
    pc = "ret" => cur[1] = last

\* C11 (amended): compose_l and compose_r hand back exactly what the stage
\* that ran last handed back (a reference stays a reference to the same
\* object); compose hands back a prvalue: the decayed copy of that result,
\* taken while the object referred to is still alive.
C11_AsIsOrDecayed ==
    pc = "ret" =>
        IF ver = "compose"
        THEN /\ cur[1].src = "val"
             /\ Read(last, args, temps) = {cur[1].ix}
        ELSE cur[1] = last

C11_Witness ==
    /\ pc = "ret"
    /\ ver = "compose"
    /\ Len(fs) = 2
    /\ last.src = "tmp"
    /\ cur[1] = ValH(2)

\* ---- grouping -------------------------------------------------------------
\* C12: whichever way the stages f, g, h are grouped into nested
\* compositions, the first call on the same input runs each stage in the
\* same order, the same number of times, and yields the same outcome.
C12_GroupingIrrelevant ==
    (pc = "idle" /\ calls = 1 /\ outcome \in {"returned", "thrown"}) =>
        \A e \in groups :
            e.args = args =>
                /\ e.outcome = outcome
                /\ e.got = got
                /\ e.exc = exc
                /\ e.order = Seen.order

\* ---- selection stages ------------------------------------------------------
\* C13: a select1st<> / select2nd<> stage yields the first / second element
\* of the pair it is handed, be that pair the caller's argument or the
\* result of the stage that ran before it, and a composition with such a
\* stage yields what the nested calls of its stages yield, e.g.
\* compose(g, select2nd)((a, b)) = g(b).
C13_SelectionComposes ==
    /\ \A j \in 1..Len(log) :
          (log[j].ev = "exit" /\ fs[log[j].st].kind \in {"sel1", "sel2"}) =>
              LET given == IF j = 2 THEN args[1] ELSE log[j - 2].vals[1]
              IN log[j].vals[1] = StageFn(fs[log[j].st], <<given>>)
    /\ (outcome = "returned" /\ \E i \in 1..Len(fs) : fs[i].kind \in {"sel1", "sel2"}) =>
          got = IF ver = "compose_l"
                THEN NestL(fs0, args, Len(fs0))
                ELSE NestR(fs0, args, 1)

\* ---- ostreamer --------------------------------------------------------------
\* the text v1 d v2 d ... vn d (d empty when no delimiter was given)
RECURSIVE Delimited(_, _)
Delimited(vs, d) ==
    IF vs = <<>> THEN <<>>
    ELSE Delimited(SubSeq(vs, 1, Len(vs) - 1), d) \o Format(vs[Len(vs)]) \o d

\* C14: whatever assignments, dereferences and increments are made through
\* an ostreamer and its copies, the stream it was constructed on holds
\* exactly v1 d v2 d ... vn d for the values assigned, in order (v1 ... vn
\* without a delimiter), no other stream is written, every copy writes to
\* that same stream, and dereference and increment write nothing and
\* return the object they were called on.
C14_OstreamerText ==
    its # <<>> =>
        /\ osText[its[1].os] =
              Delimited(sent, IF its[1].delim.null THEN <<>> ELSE its[1].delim.str)
        /\ \A s \in Streams \ {its[1].os} : osText[s] = <<>>
        /\ \A i \in 1..Len(its) : its[i] = its[1]
        /\ lastop.op # "none" => lastop.ret = lastop.on

C14_Witness ==
    /\ Len(its) = 2
    /\ its[1].delim.str = <<44, 32>>
    /\ sent = <<13, 0, 8>>
    /\ lastop = [op |-> "postinc", on |-> 2, ret |-> 2]
    /\ osText[its[1].os] = <<49, 51, 44, 32, 48, 44, 32, 56, 44, 32>>

\* ---- validity of the result ---------------------------------------------------
\* C15: what operator() hands to its caller never refers to a temporary of
\* the call chain (all of them are destroyed when operator() returns); in
\* particular a two-stage composition whose last-running stage is
\* identity<> and whose first-running stage g returns by value yields g(x).
C15_ResultValid ==
    /\ pc = "ret" => ~Temporary(cur[1])
    /\ (/\ outcome = "returned"
        /\ Len(fs0) = 2
        /\ fs0[Documented(2)].kind = "id"
        /\ ~ReturnsReference(fs0[Documented(1)]))
          => got = StageFn(fs0[Documented(1)], args)

====
